---- MODULE Spec2Model ----
(***************************************************************************)
(* Intent classification and dispatch pipeline of the doctor-assistant     *)
(* chatbot (backend/nlp.py, backend/main.py, backend/mongo.py,             *)
(* backend/rag.py).  The sessions of the frontend issue process_query      *)
(* invocations in any order, one invocation running at a time: invocations *)
(* share only DIALOGUE_CONTEXT, written in the single synchronous step     *)
(* that ends detect_intent_and_entity, and _clients, written inside the    *)
(* synchronous get_db, so the steps of two invocations commute.            *)
(* The entity recognizer, the zero-shot classifier, the date parser, the   *)
(* store and the LLM are external: each of their answers is a              *)
(* nondeterministic choice among "returns a value" and "raises".           *)
(* Spec is the pipeline.  SpecFunctions calls detect_intent and the        *)
(* retrieval functions of mongo.py on their own, once, with arguments and  *)
(* store sizes that no request of the pipeline passes them.                *)
(***************************************************************************)
EXTENDS Integers, Sequences, FiniteSets, TLC

VARIABLES
    pc,                \* where the process_query invocation of each session stands
    req,               \* its locals, and what the store was going to answer it
    DIALOGUE_CONTEXT,  \* nlp.DIALOGUE_CONTEXT, one dict of the process
    clients,           \* mongo._clients: the client of each event loop
    created,           \* clients ever constructed for each loop
    called,            \* the loops get_db has been called from
    clock,             \* datetime.today(), in days
    probe              \* one call of a function of the backend on its own

vars == <<pc, req, DIALOGUE_CONTEXT, clients, created, called, clock, probe>>

(* ------------------------------ bounds --------------------------------- *)

\* the clock advances from day 1 up to this day
MaxClock == 2
\* the recognizer returns at most this many entities for an utterance
MaxEnts == 2
\* a store query matches at most this many records
MaxMatches == 2
\* thresholds passed to detect_intent on its own, in hundredths
MaxThreshold == 12
\* records a collection holds for a lookup on its own
MaxRecords == 150

(* --------------------------- program constants ------------------------- *)

\* stop_after_attempt(3)
StopAfterAttempt == 3
\* threshold: float = 0.10, in hundredths
DefaultThreshold == 10
\* max(threshold, 0.10), in hundredths
MinThreshold == 10
\* to_list(length=100)
ToListLength == 100

(* ------------------------------ universe ------------------------------- *)

\* chat sessions of the frontend, each running process_query for its user
Sessions == {"s1", "s2"}
\* event loops from which process_query is run
Loops == {"loopA", "loopB"}

\* Python's None
Null == "None"
\* no connection yet for a loop
NoConn == 0

\* the part of INTENT_SCHEMA the routing distinguishes: the five routed
\* intents, one key that is also in EXTRA_INTENTS, two that are in neither
INTENT_SCHEMA ==
    [k \in {"appointments_today", "appointments_on_date", "patient_info",
            "staff_info", "get_patient_dob", "referral_status",
            "get_patient_contact", "greeting"} |->
        CASE k = "appointments_today"   -> "Get today's appointments."
          [] k = "appointments_on_date" -> "Get appointments for a specific date."
          [] k = "patient_info"         -> "Fetch patient record details."
          [] k = "staff_info"           -> "List hospital staff information."
          [] k = "get_patient_dob"      -> "Fetch patient's date of birth."
          [] k = "referral_status"      -> "Check referral status."
          [] k = "get_patient_contact"  -> "Fetch patient's phone or contact info."
          [] k = "greeting"             -> "User says hello or initiates conversation."]

\* candidate_labels = list(INTENT_SCHEMA.values())
candidate_labels == {INTENT_SCHEMA[k] : k \in DOMAIN INTENT_SCHEMA}

\* the part of EXTRA_INTENTS that meets the modelled schema, plus one key
\* that no label maps to
EXTRA_INTENTS == {"referral_status", "get_patient_dob", "billing_inquiry"}

\* labels of the priority set in detect_intent_and_entity
PriorityLabels == {"PERSON", "ORG", "GPE", "DATE", "DEPARTMENT", "PATIENT_ID"}

(* ------------------------------ messages ------------------------------- *)

MsgNeedDate == "Please mention a specific date (e.g., 'appointments on 20th June')."
MsgBadDate == "Couldn't understand the date. Try formats like 'June 21st' or '2025-06-21'."
MsgNeedPatient == "Please provide a patient name (e.g., 'Show me details for Rahul Sharma')."
MsgNeedDobName == "Please specify a patient's name to retrieve the date of birth."
\* f"The feature for '{intent}' is under development."
MsgUnderDevelopment(intent) == "The feature for '" \o intent \o "' is under development."
MsgDidntUnderstand == "Sorry, I didn't understand that. Try asking about appointments, staff, or patient records."
MsgInternalError == "An internal error occurred while processing your request. Please try again later."
MsgGeneratorError == "A system error occurred while generating the answer. Please try again later or consult technical support."
\* the text the LLM produced
MsgAnswer == "<answer generated from the context>"

(* --------------------------- external answers -------------------------- *)

\* what the recognizer finds: {"text": ent.text, "label": ent.label_}
EntityPool ==
    { [text |-> "Rahul",    label |-> "PERSON"],
      [text |-> "Today",    label |-> "DATE"],
      [text |-> "tomorrow", label |-> "DATE"],
      [text |-> "TOMORROW", label |-> "DATE"],
      [text |-> "xyzzy",    label |-> "DATE"],
      [text |-> "three",    label |-> "CARDINAL"] }

RECURSIVE SeqsUpTo(_, _)
\* all sequences over S of length at most n
SeqsUpTo(S, n) ==
    IF n = 0 THEN {<<>>}
    ELSE LET shorter == SeqsUpTo(S, n - 1)
         IN  shorter \cup {Append(q, e) : q \in shorter, e \in S}

\* nlp_spacy(text): the entities in order of position, or an exception
NerAnswers ==
    {[raised |-> FALSE, ents |-> q] : q \in SeqsUpTo(EntityPool, MaxEnts)}
        \cup {[raised |-> TRUE, ents |-> <<>>]}

\* top scores of the classifier, in hundredths
Scores == {0, 9, 10}

\* intent_classifier(text, candidate_labels): the top label and its score,
\* a top label outside the candidate set (malformed), or an exception
OracleAnswers ==
    {[raised |-> FALSE, label |-> l, score |-> sc] :
        l \in candidate_labels \cup {"<not a candidate label>"}, sc \in Scores}
        \cup {[raised |-> TRUE, label |-> "", score |-> 0]}

(* -------------------------------- nlp.py ------------------------------- *)

EmptyContext == [last_intent |-> Null, last_entity |-> Null]

\* an extract_entities without its except clause
extract_entities_NoExcept(ner) == [raised |-> ner.raised, ents |-> ner.ents]

\* try: doc = nlp_spacy(text) ... return entities / except: return []
\* (what the call returns, and whether it raises)
extract_entities(ner) ==
    [raised |-> FALSE, ents |-> IF ner.raised THEN <<>> ELSE ner.ents]

\* the loop over the entities without its break
SelectEntity_LastMatch(entities) ==
    LET hits == {i \in 1..Len(entities) : entities[i].label \in PriorityLabels}
    IN  IF hits = {} THEN Null
        ELSE entities[CHOOSE i \in hits : \A j \in hits : i >= j].text

\* for ent in entities: if ent['label'] in (...): entity_text = ent['text']; break
SelectEntity(entities) ==
    LET hits == {i \in 1..Len(entities) : entities[i].label \in PriorityLabels}
    IN  IF hits = {} THEN Null
        ELSE entities[CHOOSE i \in hits : \A j \in hits : i <= j].text

\* label_to_intent = {v: k for k, v in INTENT_SCHEMA.items()}
label_to_intent(label) == CHOOSE k \in DOMAIN INTENT_SCHEMA : INTENT_SCHEMA[k] = label

Max(a, b) == IF a >= b THEN a ELSE b

\* a fallback that returns the top intent whatever the score
detect_intent_NoFallback(oracle, threshold) ==
    IF oracle.raised \/ oracle.label \notin candidate_labels
    THEN <<"fallback", 0>>
    ELSE <<label_to_intent(oracle.label), oracle.score>>

\* a lookup of the top label that defaults instead of failing
detect_intent_DefaultIntent(oracle, threshold) ==
    IF oracle.raised THEN <<"fallback", 0>>
    ELSE LET top_intent == IF oracle.label \in candidate_labels
                           THEN label_to_intent(oracle.label)
                           ELSE "appointments_today"
         IN  IF oracle.score < Max(threshold, MinThreshold)
             THEN <<"fallback", oracle.score>>
             ELSE <<top_intent, oracle.score>>

\* a threshold used as passed, without the floor of 0.10
detect_intent_RawThreshold(oracle, threshold) ==
    IF oracle.raised \/ oracle.label \notin candidate_labels
    THEN <<"fallback", 0>>
    ELSE IF oracle.score < threshold
         THEN <<"fallback", oracle.score>>
         ELSE <<label_to_intent(oracle.label), oracle.score>>

\* detect_intent: (intent, score); any exception inside yields ("fallback", 0.0)
detect_intent(oracle, threshold) ==
    IF oracle.raised \/ oracle.label \notin candidate_labels
    THEN <<"fallback", 0>>
    ELSE LET top_intent == label_to_intent(oracle.label)
             dynamic_threshold == Max(threshold, MinThreshold)
         IN  IF oracle.score < dynamic_threshold
             THEN <<"fallback", oracle.score>>
             ELSE <<top_intent, oracle.score>>

\* an update of the memory placed before the fallback test
detect_intent_and_entity_EagerUpdate(entity_text, oracle, ctx) ==
    LET res == detect_intent(oracle, DefaultThreshold)
        mem == [last_intent |-> res[1], last_entity |-> entity_text]
    IN  IF res[1] = "fallback"
        THEN [intent |-> "unknown", entity |-> Null, score |-> res[2], ctx |-> mem]
        ELSE [intent |-> res[1], entity |-> entity_text, score |-> res[2], ctx |-> mem]

\* an update of the memory that keeps the last entity when there is no new one
detect_intent_and_entity_KeepEntity(entity_text, oracle, ctx) ==
    LET res == detect_intent(oracle, DefaultThreshold)
    IN  IF res[1] = "fallback"
        THEN [intent |-> "unknown", entity |-> Null, score |-> res[2], ctx |-> ctx]
        ELSE [intent |-> res[1], entity |-> entity_text, score |-> res[2],
              ctx |-> [last_intent |-> res[1],
                       last_entity |-> IF entity_text = Null THEN ctx.last_entity
                                       ELSE entity_text]]

\* a missing entity filled in from the memory of the last request
detect_intent_and_entity_SlotFill(entity_text, oracle, ctx) ==
    LET res == detect_intent(oracle, DefaultThreshold)
        resolved == IF entity_text = Null THEN ctx.last_entity ELSE entity_text
    IN  IF res[1] = "fallback"
        THEN [intent |-> "unknown", entity |-> Null, score |-> res[2], ctx |-> ctx]
        ELSE [intent |-> res[1], entity |-> resolved, score |-> res[2],
              ctx |-> [last_intent |-> res[1], last_entity |-> resolved]]

\* a fallback that repeats the intent of the last request
detect_intent_and_entity_StickyIntent(entity_text, oracle, ctx) ==
    LET res == detect_intent(oracle, DefaultThreshold)
    IN  IF res[1] = "fallback"
        THEN [intent |-> IF ctx.last_intent = Null THEN "unknown" ELSE ctx.last_intent,
              entity |-> Null, score |-> res[2], ctx |-> ctx]
        ELSE [intent |-> res[1], entity |-> entity_text, score |-> res[2],
              ctx |-> [last_intent |-> res[1], last_entity |-> entity_text]]

\* detect_intent_and_entity from `# Detect intent` on: the returned pair,
\* the score for the log, and DIALOGUE_CONTEXT as the call leaves it
detect_intent_and_entity(entity_text, oracle, ctx) ==
    LET res == detect_intent(oracle, DefaultThreshold)
    IN  IF res[1] = "fallback"
        THEN [intent |-> "unknown", entity |-> Null, score |-> res[2], ctx |-> ctx]
        ELSE [intent |-> res[1], entity |-> entity_text, score |-> res[2],
              ctx |-> [last_intent |-> res[1], last_entity |-> entity_text]]

(* ------------------------------- mongo.py ------------------------------ *)

RECURSIVE SumOver(_, _)
SumOver(f, S) ==
    IF S = {} THEN 0
    ELSE LET x == CHOOSE y \in S : TRUE IN f[x] + SumOver(f, S \ {x})

\* a cache that hands an existing client to every loop
get_db_Shared(cl, cr, loop) ==
    IF \E l \in Loops : cl[l] # NoConn
    THEN LET c == cl[CHOOSE l \in Loops : cl[l] # NoConn]
         IN  [clients |-> [cl EXCEPT ![loop] = c], created |-> cr, conn |-> c]
    ELSE LET c == SumOver(cr, Loops) + 1
         IN  [clients |-> [cl EXCEPT ![loop] = c],
              created |-> [cr EXCEPT ![loop] = @ + 1], conn |-> c]

\* get_db: if loop not in _clients: _clients[loop] = AsyncIOMotorClient(...);
\* return _clients[loop][MONGO_DB_NAME].  A new client is a new identity.
get_db(cl, cr, loop) ==
    IF cl[loop] = NoConn
    THEN LET c == SumOver(cr, Loops) + 1
         IN  [clients |-> [cl EXCEPT ![loop] = c],
              created |-> [cr EXCEPT ![loop] = @ + 1], conn |-> c]
    ELSE [clients |-> cl, created |-> cr, conn |-> cl[loop]]

Capabilities ==
    {"get_patient_history", "get_patient_dob", "get_patient_contact",
     "get_todays_appointments", "get_appointments_on_date", "get_all_staff"}

\* the lookups that return one patient (find_one)
PatientLookups == {"get_patient_history", "get_patient_dob", "get_patient_contact"}

NoPayload == [kind |-> "none", msg |-> "", n |-> 0]
Returned(v) == [raised |-> FALSE, exc |-> "", value |-> v]
Raised(e) == [raised |-> TRUE, exc |-> e, value |-> NoPayload]

NotFoundPayload == [kind |-> "error", msg |-> "Patient not found.", n |-> 0]

\* except clauses of the patient lookups that reuse the not-found payload
ErrorPayload_AsNotFound(cap) ==
    IF cap \in PatientLookups
    THEN NotFoundPayload
    ELSE [kind |-> "errorlist", msg |-> "Error fetching records.", n |-> 1]

\* the payload each function returns from its except clause
ErrorPayload(cap) ==
    CASE cap = "get_patient_history" ->
            [kind |-> "error", msg |-> "Error retrieving patient history.", n |-> 0]
      [] cap = "get_patient_dob" ->
            [kind |-> "error", msg |-> "Could not retrieve date of birth.", n |-> 0]
      [] cap = "get_patient_contact" ->
            [kind |-> "error", msg |-> "Could not retrieve contact number.", n |-> 0]
      [] cap = "get_todays_appointments" ->
            [kind |-> "errorlist", msg |-> "Error fetching today's appointments.", n |-> 1]
      [] cap = "get_appointments_on_date" ->
            [kind |-> "errorlist", msg |-> "Error fetching appointments for given date.", n |-> 1]
      [] cap = "get_all_staff" ->
            [kind |-> "errorlist", msg |-> "Error retrieving staff list.", n |-> 1]

\* a cursor read to its end, without the length
to_list_Uncapped(matches) == matches

\* cursor.to_list(length=100)
to_list(matches) == IF matches > ToListLength THEN ToListLength ELSE matches

\* get_patient_history lines 51-72 when the store answers: `patient` patients
\* match the name, and the patient has that many records in each of the
\* four related collections
PatientHistory(patient, admissions, prescriptions, diagnoses, labs) ==
    IF patient = 0 THEN NotFoundPayload
    ELSE [kind |-> "history", msg |-> "", n |-> 1,
          admissions |-> to_list(admissions),
          prescriptions |-> to_list(prescriptions),
          diagnoses |-> to_list(diagnoses),
          labs |-> to_list(labs)]

\* the four related queries of a patient's history, in the order of the code
RelatedQueries(patient_id) ==
    <<[coll |-> "admissions", by |-> "patient_id", value |-> patient_id],
      [coll |-> "prescriptions", by |-> "patient_id", value |-> patient_id],
      [coll |-> "diagnoses_icd", by |-> "patient_id", value |-> patient_id],
      [coll |-> "labevents", by |-> "patient_id", value |-> patient_id]>>

\* a history lookup that queries the related collections without the
\* `if not patient` test
HistoryQueries_NoPatientCheck(name, patient_id, failsAt) ==
    LET planned == <<[coll |-> "patients", by |-> "name", value |-> name]>>
                        \o RelatedQueries(patient_id)
    IN  IF failsAt = 0 THEN planned ELSE SubSeq(planned, 1, failsAt)

\* get_patient_history lines 51-64: the queries the function awaits, one
\* after the other, when find_one answers the patient with id patient_id
\* (None: no patient matches) and the store raises on its failsAt-th query
\* (0: on none)
HistoryQueries(name, patient_id, failsAt) ==
    LET find_one == [coll |-> "patients", by |-> "name", value |-> name]
        planned == IF patient_id = Null THEN <<find_one>>
                   ELSE <<find_one>> \o RelatedQueries(patient_id)
    IN  IF failsAt = 0 \/ failsAt > Len(planned) THEN planned
        ELSE SubSeq(planned, 1, failsAt)

\* a list lookup that reports an empty result as not found
TryBlock_EmptyIsNotFound(cap, fails, matches) ==
    IF fails THEN Raised("PyMongoError")
    ELSE IF cap = "get_patient_history"
         THEN Returned(PatientHistory(matches, matches, matches, matches, matches))
         ELSE IF matches = 0 THEN Returned(NotFoundPayload)
              ELSE IF cap \in PatientLookups
                   THEN Returned([kind |-> "doc", msg |-> "", n |-> 1])
                   ELSE Returned([kind |-> "list", msg |-> "", n |-> to_list(matches)])

\* the statements inside a function's try: the store raises PyMongoError
\* when it fails transiently, else answers from `matches` matching records
\* (for a patient's history: in the patients and in each related collection)
TryBlock(cap, fails, matches) ==
    IF fails THEN Raised("PyMongoError")
    ELSE IF cap = "get_patient_history"
         THEN Returned(PatientHistory(matches, matches, matches, matches, matches))
         ELSE IF cap \in PatientLookups
              THEN IF matches = 0 THEN Returned(NotFoundPayload)
                   ELSE Returned([kind |-> "doc", msg |-> "", n |-> 1])
              ELSE Returned([kind |-> "list", msg |-> "", n |-> to_list(matches)])

\* a function body without its except clause
FunctionBody_NoExcept(cap, fails, matches) == TryBlock(cap, fails, matches)

\* try: ... except Exception: return <error payload>
FunctionBody(cap, fails, matches) ==
    LET r == TryBlock(cap, fails, matches)
    IN  IF r.raised THEN Returned(ErrorPayload(cap)) ELSE r

\* a retry on every failure, exception or error payload, with no stop
retry_mongo_NoStop(outcome, attempt_number) ==
    IF (outcome.raised /\ outcome.exc = "PyMongoError")
         \/ (~outcome.raised /\ outcome.value.kind \in {"error", "errorlist"})
    THEN [act |-> "retry", outcome |-> outcome]
    ELSE [act |-> "done", outcome |-> outcome]

\* a retry condition that also retries a returned error payload
retry_mongo_OnErrorPayload(outcome, attempt_number) ==
    IF (outcome.raised /\ outcome.exc = "PyMongoError")
         \/ (~outcome.raised /\ outcome.value.kind \in {"error", "errorlist"})
    THEN IF attempt_number < StopAfterAttempt
         THEN [act |-> "retry", outcome |-> outcome]
         ELSE [act |-> "done", outcome |-> Raised("RetryError")]
    ELSE [act |-> "done", outcome |-> outcome]

\* retry(stop=stop_after_attempt(3), wait=wait_fixed(1),
\*       retry=retry_if_exception_type(PyMongoError)) after one call of the
\* wrapped function: call again, or finish with a value or an exception
retry_mongo(outcome, attempt_number) ==
    IF outcome.raised /\ outcome.exc = "PyMongoError"
    THEN IF attempt_number < StopAfterAttempt
         THEN [act |-> "retry", outcome |-> outcome]
         ELSE [act |-> "done", outcome |-> Raised("RetryError")]
    ELSE [act |-> "done", outcome |-> outcome]

(* -------------------------------- rag.py ------------------------------- *)

ContextNoRecords == "No records found in the system for the requested query."
ContextSerialized == "<the payload as text>"

\* serialize_context: `if not data` is true of an empty list
serialize_context(data) ==
    IF data.kind = "list" /\ data.n = 0 THEN ContextNoRecords ELSE ContextSerialized

\* the LLM call returns text or raises
LlmAnswers == {"text", "raise"}

\* generate_response: try: ... return result / except: return the message
generate_response(context_data, llm) ==
    [context |-> serialize_context(context_data),
     text |-> IF llm = "raise" THEN MsgGeneratorError ELSE MsgAnswer]

(* ------------------------------- main.py ------------------------------- *)

\* datetime values are days; None is NoDate
NoDate == 0

TwoDigits == <<"0", "1", "2", "3", "4", "5", "6", "7", "8", "9">>
\* parsed_date.strftime("%Y-%m-%d"), the days counted from 2025-06-00
strftime(day) == "2025-06-" \o TwoDigits[(day \div 10) + 1] \o TwoDigits[(day % 10) + 1]

\* str.lower() on the entity texts
Lower(text) ==
    CASE text = "Today" -> "today"
      [] text = "TOMORROW" -> "tomorrow"
      [] text = "Rahul" -> "rahul"
      [] OTHER -> text

\* `not entity`
Falsy(entity) == entity = Null \/ entity = ""

\* dateparser.parse(entity): a datetime, None, or an exception
DateParserAnswers ==
    {[raised |-> FALSE, date |-> d] : d \in {NoDate} \cup (1..MaxClock)}
        \cup {[raised |-> TRUE, date |-> NoDate]}

\* dateparser.parse was not called
NotConsulted == [consulted |-> FALSE, answer |-> [raised |-> FALSE, date |-> NoDate]]

ReturnMsg(m) ==
    [act |-> "return", msg |-> m, cap |-> Null, arg |-> Null, parser |-> NotConsulted]
Call(c, a) ==
    [act |-> "call", msg |-> Null, cap |-> c, arg |-> a, parser |-> NotConsulted]
RaiseExc ==
    [act |-> "raise", msg |-> Null, cap |-> Null, arg |-> Null, parser |-> NotConsulted]

\* a comparison of the entity with the two tokens that forgot .lower()
NormalizeDate_CaseSensitive(entity, today, parse) ==
    IF entity = "tomorrow"
    THEN [raised |-> FALSE, date |-> today + 1, consulted |-> FALSE]
    ELSE IF entity = "today"
         THEN [raised |-> FALSE, date |-> today, consulted |-> FALSE]
         ELSE [raised |-> parse.raised, date |-> parse.date, consulted |-> TRUE]

\* lines 72-77: parsed_date, and whether dateparser.parse was called for it
NormalizeDate(entity, today, parse) ==
    IF Lower(entity) = "tomorrow"
    THEN [raised |-> FALSE, date |-> today + 1, consulted |-> FALSE]
    ELSE IF Lower(entity) = "today"
         THEN [raised |-> FALSE, date |-> today, consulted |-> FALSE]
         ELSE [raised |-> parse.raised, date |-> parse.date, consulted |-> TRUE]

\* what dateparser.parse was asked and answered, on the routing's outcome
WithParser(r, parsed_date, parse) ==
    [r EXCEPT !.parser = IF parsed_date.consulted
                         THEN [consulted |-> TRUE, answer |-> parse]
                         ELSE NotConsulted]

\* a date branch that takes today's date when the entity does not parse
DateBranch_DefaultToday(entity, today, parse) ==
    LET parsed_date == NormalizeDate(entity, today, parse)
    IN  WithParser(IF parsed_date.raised THEN RaiseExc
                   ELSE IF parsed_date.date = NoDate
                        THEN Call("get_appointments_on_date", strftime(today))
                        ELSE Call("get_appointments_on_date", strftime(parsed_date.date)),
                   parsed_date, parse)

\* lines 71-85: normalise the date, then call or report
DateBranch(entity, today, parse) ==
    LET parsed_date == NormalizeDate(entity, today, parse)
    IN  WithParser(IF parsed_date.raised THEN RaiseExc
                   ELSE IF parsed_date.date = NoDate THEN ReturnMsg(MsgBadDate)
                        ELSE Call("get_appointments_on_date", strftime(parsed_date.date)),
                   parsed_date, parse)

\* a routing that answers an unrecognized intent with the staff list
Route_UnknownToStaff(intent, entity, today, parse) ==
    CASE intent \in {"appointments_today", "appointments"} ->
            Call("get_todays_appointments", Null)
      [] intent = "appointments_on_date" ->
            IF Falsy(entity) THEN ReturnMsg(MsgNeedDate)
            ELSE DateBranch(entity, today, parse)
      [] intent \in {"staff", "staff_info"} -> Call("get_all_staff", Null)
      [] intent = "patient_info" ->
            IF Falsy(entity) THEN ReturnMsg(MsgNeedPatient)
            ELSE Call("get_patient_history", entity)
      [] intent = "get_patient_dob" ->
            IF Falsy(entity) THEN ReturnMsg(MsgNeedDobName)
            ELSE Call("get_patient_dob", entity)
      [] OTHER ->
            IF intent \in EXTRA_INTENTS THEN ReturnMsg(MsgUnderDevelopment(intent))
            ELSE Call("get_all_staff", Null)

\* a routing that has a branch for get_patient_contact
Route_ContactRouted(intent, entity, today, parse) ==
    CASE intent \in {"appointments_today", "appointments"} ->
            Call("get_todays_appointments", Null)
      [] intent = "appointments_on_date" ->
            IF Falsy(entity) THEN ReturnMsg(MsgNeedDate)
            ELSE DateBranch(entity, today, parse)
      [] intent \in {"staff", "staff_info"} -> Call("get_all_staff", Null)
      [] intent = "patient_info" ->
            IF Falsy(entity) THEN ReturnMsg(MsgNeedPatient)
            ELSE Call("get_patient_history", entity)
      [] intent = "get_patient_dob" ->
            IF Falsy(entity) THEN ReturnMsg(MsgNeedDobName)
            ELSE Call("get_patient_dob", entity)
      [] intent = "get_patient_contact" -> Call("get_patient_contact", entity)
      [] OTHER ->
            IF intent \in EXTRA_INTENTS THEN ReturnMsg(MsgUnderDevelopment(intent))
            ELSE ReturnMsg(MsgDidntUnderstand)

\* a routing whose patient_info branch lost its `if not entity` test
Route_NoPatientCheck(intent, entity, today, parse) ==
    CASE intent \in {"appointments_today", "appointments"} ->
            Call("get_todays_appointments", Null)
      [] intent = "appointments_on_date" ->
            IF Falsy(entity) THEN ReturnMsg(MsgNeedDate)
            ELSE DateBranch(entity, today, parse)
      [] intent \in {"staff", "staff_info"} -> Call("get_all_staff", Null)
      [] intent = "patient_info" -> Call("get_patient_history", entity)
      [] intent = "get_patient_dob" ->
            IF Falsy(entity) THEN ReturnMsg(MsgNeedDobName)
            ELSE Call("get_patient_dob", entity)
      [] OTHER ->
            IF intent \in EXTRA_INTENTS THEN ReturnMsg(MsgUnderDevelopment(intent))
            ELSE ReturnMsg(MsgDidntUnderstand)

\* process_query lines 60-118: the if/elif chain on the intent
Route(intent, entity, today, parse) ==
    CASE intent \in {"appointments_today", "appointments"} ->
            Call("get_todays_appointments", Null)
      [] intent = "appointments_on_date" ->
            IF Falsy(entity) THEN ReturnMsg(MsgNeedDate)
            ELSE DateBranch(entity, today, parse)
      [] intent \in {"staff", "staff_info"} -> Call("get_all_staff", Null)
      [] intent = "patient_info" ->
            IF Falsy(entity) THEN ReturnMsg(MsgNeedPatient)
            ELSE Call("get_patient_history", entity)
      [] intent = "get_patient_dob" ->
            IF Falsy(entity) THEN ReturnMsg(MsgNeedDobName)
            ELSE Call("get_patient_dob", entity)
      [] OTHER ->
            IF intent \in EXTRA_INTENTS THEN ReturnMsg(MsgUnderDevelopment(intent))
            ELSE ReturnMsg(MsgDidntUnderstand)

\* a process_query without its except clause
ProcessQueryExcept_Propagate(raised) == IF raised THEN "raised" ELSE "ok"

\* except Exception as e: return the internal-error message
ProcessQueryExcept(raised) == IF raised THEN "caught" ELSE "ok"

(* ------------------------------- the state ----------------------------- *)

\* the locals of one process_query invocation, with what the claims read of
\* its history: the classifier's answer, whether the invocation changed
\* DIALOGUE_CONTEXT, what the store was going to do, the calls made
NoRequest ==
    [loop |-> Null, nerRaised |-> FALSE, intent |-> Null, entity |-> Null,
     score |-> 0, classified |-> FALSE, ctxChanged |-> FALSE, remembered |-> FALSE,
     parser |-> NotConsulted,
     cap |-> Null, arg |-> Null, failures |-> 0, matches |-> 0,
     attempts |-> 0, conn |-> NoConn, data |-> NoPayload,
     genCalls |-> 0, context |-> Null, response |-> Null]

\* no function is being called on its own
NoProbe == [fn |-> Null, arg |-> <<>>, returned |-> FALSE, out |-> <<>>]

Init ==
    /\ pc = [s \in Sessions |-> "idle"]
    /\ req = [s \in Sessions |-> NoRequest]
    /\ DIALOGUE_CONTEXT = EmptyContext
    /\ clients = [l \in Loops |-> NoConn]
    /\ created = [l \in Loops |-> 0]
    /\ called = {}
    /\ clock = 1
    /\ probe = NoProbe

\* the end of an invocation by an exception: caught, or let through
Finish(s, r, how) ==
    IF how = "raised"
    THEN /\ pc' = [pc EXCEPT ![s] = "raised"]
         /\ req' = [req EXCEPT ![s] = r]
    ELSE /\ pc' = [pc EXCEPT ![s] = "done"]
         /\ req' = [req EXCEPT ![s] = [r EXCEPT !.response = MsgInternalError]]

\* process_query line 57, first half of detect_intent_and_entity: the
\* recognizer runs and the first entity with a priority label is kept.
\* The invocation runs on the event loop of its caller.
ExtractEntity(s) ==
    /\ \A t \in Sessions : pc[t] = "idle"
    /\ \E loop \in Loops, ner \in NerAnswers :
          LET entities == extract_entities(ner)
              r == [NoRequest EXCEPT !.loop = loop, !.nerRaised = ner.raised]
          IN  IF entities.raised
              THEN Finish(s, r, ProcessQueryExcept(TRUE))
              ELSE /\ pc' = [pc EXCEPT ![s] = "classify"]
                   /\ req' = [req EXCEPT ![s] =
                                [r EXCEPT !.entity = SelectEntity(entities.ents)]]
    /\ UNCHANGED <<DIALOGUE_CONTEXT, clients, created, called, clock, probe>>

\* second half of detect_intent_and_entity: classify, fall back or remember
DetectIntent(s) ==
    /\ pc[s] = "classify"
    /\ \E oracle \in OracleAnswers :
          LET r == detect_intent_and_entity(req[s].entity, oracle, DIALOGUE_CONTEXT)
          IN  /\ DIALOGUE_CONTEXT' = r.ctx
              /\ req' = [req EXCEPT
                    ![s].intent = r.intent, ![s].entity = r.entity,
                    ![s].score = r.score,
                    ![s].classified = (~oracle.raised /\ oracle.label \in candidate_labels),
                    ![s].ctxChanged = (r.ctx # DIALOGUE_CONTEXT),
                    ![s].remembered = (req[s].entity = Null
                                        /\ DIALOGUE_CONTEXT.last_entity # Null)]
    /\ pc' = [pc EXCEPT ![s] = "route"]
    /\ UNCHANGED <<clients, created, called, clock, probe>>

\* process_query lines 60-118: validate, normalise, choose the retrieval.
\* The store's part of the coming call is fixed here: how many of its first
\* calls fail transiently and how many records match.
Dispatch(s) ==
    /\ pc[s] = "route"
    /\ \E parse \in DateParserAnswers :
          LET d == Route(req[s].intent, req[s].entity, clock, parse)
          IN  CASE d.act = "return" ->
                    /\ pc' = [pc EXCEPT ![s] = "done"]
                    /\ req' = [req EXCEPT ![s].response = d.msg,
                                           ![s].parser = d.parser]
                [] d.act = "raise" ->
                    Finish(s, [req[s] EXCEPT !.parser = d.parser],
                           ProcessQueryExcept(TRUE))
                [] d.act = "call" ->
                    \E f \in 0..StopAfterAttempt, m \in 0..MaxMatches :
                        /\ pc' = [pc EXCEPT ![s] = "retrieve"]
                        /\ req' = [req EXCEPT ![s].parser = d.parser,
                                               ![s].cap = d.cap, ![s].arg = d.arg,
                                               ![s].failures = f, ![s].matches = m]
    /\ UNCHANGED <<DIALOGUE_CONTEXT, clients, created, called, clock, probe>>

\* one call of the decorated retrieval function: get_db(), the queries,
\* the except clause, then tenacity's decision
Attempt(s) ==
    /\ pc[s] = "retrieve"
    /\ LET n == req[s].attempts + 1
           db == get_db(clients, created, req[s].loop)
           body == FunctionBody(req[s].cap, n <= req[s].failures, req[s].matches)
           t == retry_mongo(body, n)
           r == [req[s] EXCEPT !.attempts = n, !.conn = db.conn]
       IN  /\ clients' = db.clients
           /\ created' = db.created
           /\ called' = called \cup {req[s].loop}
           /\ CASE t.act = "retry" ->
                    /\ pc' = pc
                    /\ req' = [req EXCEPT ![s] = r]
                [] t.act = "done" /\ t.outcome.raised ->
                    Finish(s, r, ProcessQueryExcept(TRUE))
                [] t.act = "done" /\ ~t.outcome.raised ->
                    /\ pc' = [pc EXCEPT ![s] = "generate"]
                    /\ req' = [req EXCEPT ![s] = [r EXCEPT !.data = t.outcome.value]]
    /\ UNCHANGED <<DIALOGUE_CONTEXT, clock, probe>>

\* process_query lines 120-124: generate_response(user_query, data)
GenerateResponse(s) ==
    /\ pc[s] = "generate"
    /\ \E llm \in LlmAnswers :
          LET g == generate_response(req[s].data, llm)
          IN  req' = [req EXCEPT ![s].genCalls = @ + 1, ![s].context = g.context,
                                 ![s].response = g.text]
    /\ pc' = [pc EXCEPT ![s] = "done"]
    /\ UNCHANGED <<DIALOGUE_CONTEXT, clients, created, called, clock, probe>>

\* the frontend takes the answer (or the exception); the locals are gone
Deliver(s) ==
    /\ pc[s] \in {"done", "raised"}
    /\ pc' = [pc EXCEPT ![s] = "idle"]
    /\ req' = [req EXCEPT ![s] = NoRequest]
    /\ UNCHANGED <<DIALOGUE_CONTEXT, clients, created, called, clock, probe>>

\* midnight passes
Tick ==
    /\ clock < MaxClock
    /\ clock' = clock + 1
    /\ UNCHANGED <<pc, req, DIALOGUE_CONTEXT, clients, created, called, probe>>

Next ==
    \/ \E s \in Sessions : ExtractEntity(s)
    \/ \E s \in Sessions : DetectIntent(s)
    \/ \E s \in Sessions : Dispatch(s)
    \/ \E s \in Sessions : Attempt(s)
    \/ \E s \in Sessions : GenerateResponse(s)
    \/ \E s \in Sessions : Deliver(s)
    \/ Tick

Spec == Init /\ [][Next]_vars

\* an invocation under way goes on: the event loop resumes the coroutine
\* whenever the call it awaits has returned or failed
Progress(s) == DetectIntent(s) \/ Dispatch(s) \/ Attempt(s) \/ GenerateResponse(s)

\* the pipeline, every awaited call returning or failing in the end
SpecLive == Spec /\ \A s \in Sessions : WF_vars(Progress(s))

(* ----------------------- the functions on their own --------------------- *)

\* the classifier's answers for a call of detect_intent on its own: every
\* score around every threshold
ProbeOracleAnswers ==
    {[raised |-> FALSE, label |-> l, score |-> sc] :
        l \in candidate_labels \cup {"<not a candidate label>"},
        sc \in 0..(MaxThreshold + 1)}
        \cup {[raised |-> TRUE, label |-> "", score |-> 0]}

\* detect_intent(text, entity_text, threshold) with any threshold argument
DetectIntentCalls ==
    {[fn |-> "detect_intent", arg |-> [oracle |-> o, threshold |-> t],
      returned |-> FALSE, out |-> <<>>] :
        o \in ProbeOracleAnswers, t \in 0..MaxThreshold}

\* a decorated retrieval function called once, the store failing or holding
\* `matches` matching records
RetrievalCalls ==
    {[fn |-> "retrieval", arg |-> [cap |-> c, fails |-> f, matches |-> m],
      returned |-> FALSE, out |-> <<>>] :
        c \in Capabilities, f \in BOOLEAN, m \in 0..MaxRecords}

\* sizes of a related collection: empty, one, at the cap, past the cap
RelatedCounts == {0, 1, ToListLength, MaxRecords}

\* get_patient_history with each collection holding its own number of records
HistoryCalls ==
    {[fn |-> "get_patient_history",
      arg |-> [patient |-> pt, admissions |-> a, prescriptions |-> p,
               diagnoses |-> d, labs |-> l],
      returned |-> FALSE, out |-> <<>>] :
        pt \in 0..1, a \in RelatedCounts, p \in RelatedCounts,
        d \in RelatedCounts, l \in RelatedCounts}

\* the recognizer's answer for one utterance, and the entity kept from it
SelectEntityCalls ==
    {[fn |-> "select_entity", arg |-> ner, returned |-> FALSE, out |-> <<>>] :
        ner \in NerAnswers}

\* ids of the patients a name can match
PatientIds == {"p1", "p2"}

\* get_patient_history called for a name, the store answering a patient or
\* none and failing on one of the queries or on none
HistoryQueryCalls ==
    {[fn |-> "history_queries",
      arg |-> [name |-> nm, patient_id |-> p, failsAt |-> k],
      returned |-> FALSE, out |-> <<>>] :
        nm \in {"Rahul", "xyzzy"}, p \in PatientIds \cup {Null}, k \in 0..5}

ProbeCalls ==
    DetectIntentCalls \cup RetrievalCalls \cup HistoryCalls \cup SelectEntityCalls
        \cup HistoryQueryCalls

\* a function of the backend is about to be called, outside any request
InitFunctions ==
    /\ pc = [s \in Sessions |-> "idle"]
    /\ req = [s \in Sessions |-> NoRequest]
    /\ DIALOGUE_CONTEXT = EmptyContext
    /\ clients = [l \in Loops |-> NoConn]
    /\ created = [l \in Loops |-> 0]
    /\ called = {}
    /\ clock = 1
    /\ probe \in ProbeCalls

Frame == UNCHANGED <<pc, req, DIALOGUE_CONTEXT, clients, created, called, clock>>

CallDetectIntent ==
    /\ probe.fn = "detect_intent"
    /\ ~probe.returned
    /\ probe' = [probe EXCEPT !.returned = TRUE,
                              !.out = detect_intent(probe.arg.oracle, probe.arg.threshold)]
    /\ Frame

CallRetrieval ==
    /\ probe.fn = "retrieval"
    /\ ~probe.returned
    /\ LET body == FunctionBody(probe.arg.cap, probe.arg.fails, probe.arg.matches)
       IN  probe' = [probe EXCEPT !.returned = TRUE,
                                  !.out = retry_mongo(body, 1)]
    /\ Frame

CallPatientHistory ==
    /\ probe.fn = "get_patient_history"
    /\ ~probe.returned
    /\ probe' = [probe EXCEPT !.returned = TRUE,
                              !.out = PatientHistory(probe.arg.patient,
                                          probe.arg.admissions, probe.arg.prescriptions,
                                          probe.arg.diagnoses, probe.arg.labs)]
    /\ Frame

\* nlp.py lines 183-189: extract_entities, then the loop that keeps one entity
CallSelectEntity ==
    /\ probe.fn = "select_entity"
    /\ ~probe.returned
    /\ probe' = [probe EXCEPT !.returned = TRUE,
                              !.out = SelectEntity(extract_entities(probe.arg).ents)]
    /\ Frame

CallHistoryQueries ==
    /\ probe.fn = "history_queries"
    /\ ~probe.returned
    /\ probe' = [probe EXCEPT !.returned = TRUE,
                              !.out = HistoryQueries(probe.arg.name, probe.arg.patient_id,
                                                     probe.arg.failsAt)]
    /\ Frame

NextFunctions ==
    \/ CallSelectEntity
    \/ CallHistoryQueries
    \/ CallDetectIntent
    \/ CallRetrieval
    \/ CallPatientHistory

SpecFunctions == InitFunctions /\ [][NextFunctions]_vars

(* ------------------------- typing and vocabulary ----------------------- *)

Phases == {"idle", "classify", "route", "retrieve", "generate", "done", "raised"}

\* pc: where each session's invocation stands; req: its locals;
\* clients: _clients, the client of each loop; created: how many clients
\* were ever constructed for a loop; called: the loops get_db was called from
TypeOK ==
    /\ pc \in [Sessions -> Phases]
    /\ \A s \in Sessions :
          /\ req[s].attempts \in 0..StopAfterAttempt
          /\ req[s].cap \in Capabilities \cup {Null}
          /\ req[s].loop \in Loops \cup {Null}
    /\ DIALOGUE_CONTEXT.last_intent \in DOMAIN INTENT_SCHEMA \cup {Null}
    /\ clients \in [Loops -> Nat]
    /\ created \in [Loops -> Nat]
    /\ called \subseteq Loops
    /\ clock \in 1..MaxClock

\* the messages process_query can return
DisplayableStrings ==
    {MsgNeedDate, MsgBadDate, MsgNeedPatient, MsgNeedDobName,
     MsgDidntUnderstand, MsgInternalError, MsgGeneratorError, MsgAnswer}
        \cup {MsgUnderDevelopment(i) : i \in EXTRA_INTENTS}

ValidationMessages == {MsgNeedDate, MsgBadDate, MsgNeedPatient, MsgNeedDobName}

\* the retrieval of session s has returned to process_query or ended
RetrievalOver(s) == req[s].cap # Null /\ pc[s] \in {"generate", "done", "raised"}

\* what the store answers when it does not fail
SuccessPayload(s) == TryBlock(req[s].cap, FALSE, req[s].matches).value

(* ------------------------------- claims -------------------------------- *)

\* C1: a retrieval whose store call fails transiently on the first two
\* attempts and would succeed on the third returns, after three attempts,
\* the successful payload of the third attempt and not an error payload.
\* (Violated: the except clause of the function body turns the first
\* PyMongoError into an error payload, so tenacity never sees an exception.)
C1_RetrySucceedsOnThird ==
    \A s \in Sessions :
        (RetrievalOver(s) /\ req[s].failures = 2)
            => /\ req[s].attempts = 3
               /\ req[s].data = SuccessPayload(s)

\* C2: a retrieval whose store calls all fail transiently makes exactly
\* StopAfterAttempt (3) attempts before it yields its store-error outcome,
\* and never more than that.  (Violated: it makes exactly one.)
C2_ExactlyThreeAttempts ==
    \A s \in Sessions :
        /\ req[s].attempts <= StopAfterAttempt
        /\ (RetrievalOver(s) /\ req[s].failures = StopAfterAttempt)
              => /\ req[s].attempts = StopAfterAttempt
                 /\ \/ req[s].data = ErrorPayload(req[s].cap)
                    \/ req[s].response = MsgInternalError

\* C3: when the classifier answers with a top score below the 0.10
\* threshold, the request is never routed to a retrieval (no store attempt,
\* no connection taken) and ends with the "didn't understand" message.
C3_LowScoreFallsBack ==
    \A s \in Sessions :
        (req[s].classified /\ req[s].score < MinThreshold)
            => /\ pc[s] \in {"route", "done"}
               /\ req[s].cap = Null
               /\ req[s].attempts = 0
               /\ req[s].conn = NoConn
               /\ (pc[s] = "done" => req[s].response = MsgDidntUnderstand)

C3_Witness ==
    \E s \in Sessions :
        /\ pc[s] = "done"
        /\ req[s].classified
        /\ req[s].score = 9
        /\ req[s].response = MsgDidntUnderstand
        /\ req[s].attempts = 0

\* the intents whose branch tests `if not entity`
ArgIntents == {"appointments_on_date", "patient_info", "get_patient_dob"}

MissingArgMessage(intent) ==
    CASE intent = "appointments_on_date" -> MsgNeedDate
      [] intent = "patient_info" -> MsgNeedPatient
      [] intent = "get_patient_dob" -> MsgNeedDobName

\* C4: once dispatched, a request whose intent requires an argument and
\* whose utterance gave no entity has ended with the validation message of
\* that argument, with no store attempt and no generator call.
C4_MissingArgumentValidation ==
    \A s \in Sessions :
        (/\ pc[s] \in {"retrieve", "generate", "done", "raised"}
         /\ req[s].intent \in ArgIntents
         /\ req[s].entity = Null)
            => /\ pc[s] = "done"
               /\ req[s].response = MissingArgMessage(req[s].intent)
               /\ req[s].cap = Null
               /\ req[s].attempts = 0
               /\ req[s].genCalls = 0

C4_Witness ==
    \E s \in Sessions :
        /\ pc[s] = "done"
        /\ req[s].intent = "get_patient_dob"
        /\ req[s].entity = Null
        /\ req[s].response = MsgNeedDobName

\* the request of session s ended in a validation error, a store error or
\* fallback
EndedWithoutSuccess(s) ==
    /\ pc[s] = "done"
    /\ \/ req[s].response \in ValidationMessages
       \/ req[s].intent = "unknown"
       \/ (req[s].cap # Null /\ req[s].data = ErrorPayload(req[s].cap))

ClassifyStep(s) == pc[s] = "classify" /\ pc'[s] = "route"

C6_ExhaustedRetriesGenericFailure ==
    \A s \in Sessions :
        (pc[s] = "done" /\ req[s].cap # Null /\ req[s].failures = StopAfterAttempt)
            => /\ req[s].response = MsgInternalError
               /\ req[s].genCalls = 0

\* C7: no invocation of process_query ends by an exception, and the value
\* of every ended invocation is one of its displayable strings, whether the
\* recognizer, the classifier, the date parser, the store and the LLM
\* return or raise.
C7_AlwaysReturnsString ==
    \A s \in Sessions :
        /\ pc[s] # "raised"
        /\ (pc[s] = "done" => req[s].response \in DisplayableStrings)

C7_Witness ==
    \E s \in Sessions :
        /\ pc[s] = "done"
        /\ req[s].intent = "appointments_on_date"
        /\ req[s].entity = "xyzzy"
        /\ req[s].response = MsgInternalError

\* C8: every loop that called get_db has exactly one client ever created
\* for it and loops that did not call have none; an invocation holds the
\* client of its own loop; no two loops hold the same client; and a loop's
\* client, once created, is never removed or replaced.
C8_OneConnectionPerContext ==
    /\ [](/\ \A l \in Loops :
                /\ created[l] = (IF l \in called THEN 1 ELSE 0)
                /\ (clients[l] # NoConn) = (l \in called)
          /\ \A l1, l2 \in Loops :
                (l1 # l2 /\ clients[l1] # NoConn) => clients[l1] # clients[l2]
          /\ \A s \in Sessions :
                req[s].attempts > 0 =>
                    /\ req[s].conn # NoConn
                    /\ req[s].conn = clients[req[s].loop])
    /\ [][\A l \in Loops : clients[l] # NoConn => clients'[l] = clients[l]]_vars

C8_Witness ==
    /\ called = Loops
    /\ \A l \in Loops : clients[l] # NoConn /\ created[l] = 1
    /\ \E s \in Sessions : req[s].attempts > 0 /\ req[s].conn = clients[req[s].loop]

\* the conversation memory a session's next request would find: the one
\* module-level dict, whichever the session
ContextSeenBy(t) == DIALOGUE_CONTEXT

\* C9: a step of the pipeline run of one session never changes the
\* {last_intent, last_entity} seen by another session, so that a session
\* which has not asked anything yet still finds the memory empty.
\* (Violated: the memory is one dict of the process, shared by all
\* sessions.)
C9_SessionScopedContext ==
    [][\A s, t \in Sessions :
          (s # t /\ pc'[s] # pc[s]) => ContextSeenBy(t)' = ContextSeenBy(t)]_vars

\* C10: a patient lookup that the store answers at once with "no match"
\* is attempted exactly once and returns the not-found payload, and a
\* request that ends in a validation message has made no store attempt.
C10_NotFoundAndValidationNotRetried ==
    \A s \in Sessions :
        /\ (req[s].cap \in PatientLookups /\ req[s].failures = 0 /\ req[s].matches = 0)
              => /\ req[s].attempts <= 1
                 /\ (RetrievalOver(s)
                        => /\ pc[s] # "raised"
                           /\ req[s].attempts = 1
                           /\ req[s].data = NotFoundPayload)
        /\ (pc[s] = "done" /\ req[s].response \in ValidationMessages)
              => req[s].attempts = 0

C10_Witness ==
    \E s \in Sessions :
        /\ pc[s] = "done"
        /\ req[s].cap = "get_patient_history"
        /\ req[s].failures = 0
        /\ req[s].data = NotFoundPayload
        /\ req[s].attempts = 1


(* ------------------------------ C11 .. C20 ------------------------------ *)

\* C11: a failure of the scoring oracle inside detect_intent (an exception, a
\* top label outside the label set) yields (fallback, 0.0) and is never raised:
\* the request is classified "unknown" with score 0, reaches no retrieval and
\* ends with the unrecognized-intent message.
C11_OracleFailureFallsBack ==
    \A s \in Sessions :
        (pc[s] \notin {"idle", "classify"} /\ req[s].intent # Null /\ ~req[s].classified)
            => /\ req[s].intent = "unknown"
               /\ req[s].score = 0
               /\ req[s].entity = Null
               /\ pc[s] \in {"route", "done"}
               /\ req[s].cap = Null
               /\ req[s].attempts = 0
               /\ req[s].genCalls = 0
               /\ pc[s] = "done" => req[s].response = MsgDidntUnderstand

C11_Witness ==
    \E s \in Sessions :
        /\ pc[s] = "done"
        /\ ~req[s].classified
        /\ req[s].intent = "unknown"
        /\ req[s].score = 0
        /\ req[s].response = MsgDidntUnderstand

\* C12: for every threshold argument and every top label of the label set,
\* detect_intent answers fallback when the top score is below
\* max(threshold, 0.10), whichever label ranked first, and otherwise the
\* intent key whose description is the top label.
C12_ThresholdFloor ==
    (probe.fn = "detect_intent" /\ probe.returned
        /\ ~probe.arg.oracle.raised /\ probe.arg.oracle.label \in candidate_labels)
        => LET threshold == probe.arg.threshold
               score     == probe.arg.oracle.score
               floor     == IF threshold > 10 THEN threshold ELSE 10
           IN  IF score < floor
               THEN probe.out = <<"fallback", score>>
               ELSE /\ probe.out[1] \in DOMAIN INTENT_SCHEMA
                    /\ INTENT_SCHEMA[probe.out[1]] = probe.arg.oracle.label
                    /\ probe.out[2] = score

C12_Witness ==
    /\ probe.fn = "detect_intent"
    /\ probe.returned
    /\ probe.arg.threshold = 5
    /\ probe.arg.oracle.score = 7
    /\ probe.out = <<"fallback", 7>>


\* the step of session s out of the routing of process_query
DispatchStep(s) == pc[s] = "route" /\ pc'[s] # "route"

\* C13: for appointments_on_date, an entity the date parser answers None for
\* yields the date-validation message without any retrieval call, and
\* get_appointments_on_date is only ever called with the formatted date of a
\* successful normalisation (the parser's date, or the clock's for the tokens).
C13_UnparsableDateNoRetrieval ==
    \A s \in Sessions :
        /\ ( /\ pc[s] \notin {"idle", "classify", "route"}
             /\ req[s].intent = "appointments_on_date"
             /\ req[s].parser.consulted
             /\ ~req[s].parser.answer.raised
             /\ req[s].parser.answer.date = NoDate )
                => /\ pc[s] = "done"
                   /\ req[s].response = MsgBadDate
                   /\ req[s].cap = Null
                   /\ req[s].attempts = 0
        /\ req[s].cap = "get_appointments_on_date"
                => /\ req[s].intent = "appointments_on_date"
                   /\ \E day \in 1..(MaxClock + 1) : req[s].arg = strftime(day)
                   /\ req[s].parser.consulted
                        => /\ ~req[s].parser.answer.raised
                           /\ req[s].parser.answer.date # NoDate
                           /\ req[s].arg = strftime(req[s].parser.answer.date)
                   /\ ~req[s].parser.consulted
                        => Lower(req[s].entity) \in {"today", "tomorrow"}

C13_Witness ==
    \E s \in Sessions :
        /\ pc[s] = "done"
        /\ req[s].intent = "appointments_on_date"
        /\ req[s].entity = "xyzzy"
        /\ req[s].parser.consulted
        /\ req[s].parser.answer.date = NoDate
        /\ req[s].response = MsgBadDate
        /\ req[s].attempts = 0

\* C14: for appointments_on_date, the entity "today" in any letter case is
\* normalised to the current date and "tomorrow" to the current date plus one
\* day without a call of the date parser, get_appointments_on_date is chosen
\* with exactly that formatted date, and the date is the one every attempt of
\* the retrieval is made with.
C14_TodayTomorrowTokens ==
    [][\A s \in Sessions :
          /\ ( /\ DispatchStep(s)
               /\ req[s].intent = "appointments_on_date"
               /\ req[s].entity \in {"today", "Today", "tomorrow", "TOMORROW"} )
                  => /\ pc'[s] = "retrieve"
                     /\ req'[s].cap = "get_appointments_on_date"
                     /\ req'[s].arg =
                            IF req[s].entity \in {"today", "Today"}
                            THEN strftime(clock) ELSE strftime(clock + 1)
                     /\ ~req'[s].parser.consulted
          /\ (pc[s] = "retrieve" /\ pc'[s] # "idle")
                  => (req'[s].cap = req[s].cap /\ req'[s].arg = req[s].arg)
      ]_vars

C14_Witness ==
    \E s \in Sessions :
        /\ pc[s] = "generate"
        /\ req[s].cap = "get_appointments_on_date"
        /\ req[s].entity = "TOMORROW"
        /\ ~req[s].parser.consulted
        /\ req[s].arg = strftime(MaxClock + 1)
        /\ req[s].attempts = 1


\* a decorated retrieval function has returned from its call on its own
RetrievalReturned ==
    /\ probe.fn = "retrieval"
    /\ probe.returned
    /\ probe.out.act = "done"
    /\ ~probe.out.outcome.raised

\* C15: a primary-entity lookup (get_patient_history, get_patient_dob,
\* get_patient_contact) returns the "Patient not found." payload exactly when
\* the store answered and no patient matched; what the same function returns
\* on a store error is a different payload, and so is what it returns when
\* a patient matched.
C15_NotFoundDistinguishable ==
    (probe.fn = "retrieval" /\ probe.returned /\ probe.arg.cap \in PatientLookups)
        => /\ RetrievalReturned
           /\ (probe.out.outcome.value.msg = "Patient not found.")
                <=> (~probe.arg.fails /\ probe.arg.matches = 0)
           /\ probe.arg.fails
                => /\ probe.out.outcome.value.kind = "error"
                   /\ probe.out.outcome.value.msg \in
                        {"Error retrieving patient history.",
                         "Could not retrieve date of birth.",
                         "Could not retrieve contact number."}

C15_Witness ==
    /\ RetrievalReturned
    /\ probe.arg.cap = "get_patient_contact"
    /\ ~probe.arg.fails
    /\ probe.arg.matches = 0
    /\ probe.out.outcome.value = [kind |-> "error", msg |-> "Patient not found.", n |-> 0]


\* the lookups that return a list of records (find(...).to_list)
CollectionLookups == {"get_todays_appointments", "get_appointments_on_date", "get_all_staff"}

\* C16: a collection lookup (get_todays_appointments, get_appointments_on_date,
\* get_all_staff) whose query the store answers with no matching record
\* returns the empty list, not a not-found or error payload, after one
\* attempt, and the request goes on to the generator with that empty result.
C16_EmptyListIsSuccess ==
    \A s \in Sessions :
        ( /\ RetrievalOver(s)
          /\ req[s].cap \in CollectionLookups
          /\ req[s].failures = 0
          /\ req[s].matches = 0 )
            => /\ req[s].data = [kind |-> "list", msg |-> "", n |-> 0]
               /\ req[s].attempts = 1
               /\ pc[s] \in {"generate", "done"}
               /\ pc[s] = "done"
                    => /\ req[s].genCalls = 1
                       /\ req[s].context = ContextNoRecords
                       /\ req[s].response \in {MsgAnswer, MsgGeneratorError}

C16_Witness ==
    \E s \in Sessions :
        /\ pc[s] = "done"
        /\ req[s].cap = "get_all_staff"
        /\ req[s].failures = 0
        /\ req[s].matches = 0
        /\ req[s].data.kind = "list"
        /\ req[s].data.n = 0
        /\ req[s].genCalls = 1
        /\ req[s].response = MsgAnswer

\* C17: a collection lookup the store answers with n matching records returns
\* min(n, 100) of them, and a full-history lookup returns min(n, 100) records
\* of each of its four related collections, each for its own n.
C17_ListsCappedAtHundred ==
    /\ (RetrievalReturned /\ probe.arg.cap \in CollectionLookups /\ ~probe.arg.fails)
          => /\ probe.out.outcome.value.kind = "list"
             /\ probe.out.outcome.value.n =
                    IF probe.arg.matches < 100 THEN probe.arg.matches ELSE 100
    /\ (probe.fn = "get_patient_history" /\ probe.returned /\ probe.arg.patient > 0)
          => /\ probe.out.kind = "history"
             /\ probe.out.admissions =
                    IF probe.arg.admissions < 100 THEN probe.arg.admissions ELSE 100
             /\ probe.out.prescriptions =
                    IF probe.arg.prescriptions < 100 THEN probe.arg.prescriptions ELSE 100
             /\ probe.out.diagnoses =
                    IF probe.arg.diagnoses < 100 THEN probe.arg.diagnoses ELSE 100
             /\ probe.out.labs =
                    IF probe.arg.labs < 100 THEN probe.arg.labs ELSE 100

C17_Witness ==
    /\ RetrievalReturned
    /\ probe.arg.cap = "get_appointments_on_date"
    /\ probe.arg.matches = 150
    /\ probe.out.outcome.value.n = 100


C19_ContextNeverFillsArgument ==
    [][\A s \in Sessions :
          /\ (ClassifyStep(s) /\ req[s].entity = Null)
                => /\ req'[s].entity = Null
                   /\ req'[s].remembered = (DIALOGUE_CONTEXT.last_entity # Null)
          /\ (DispatchStep(s) /\ req[s].remembered /\ req[s].intent \in ArgIntents)
                => /\ pc'[s] = "done"
                   /\ req'[s].response = MissingArgMessage(req[s].intent)
                   /\ req'[s].cap = Null
                   /\ req'[s].attempts = 0
      ]_vars

C19_Witness ==
    \E s \in Sessions :
        /\ pc[s] = "done"
        /\ req[s].remembered
        /\ req[s].intent = "patient_info"
        /\ req[s].entity = Null
        /\ req[s].response = MsgNeedPatient
        /\ req[s].attempts = 0

\* the intents whose retrieval takes no argument
NoArgIntents == {"appointments_today", "staff_info"}

\* C20: a failure of the entity recognizer is absorbed: the request is not
\* ended by it, it is classified with no entity, and with an intent that
\* needs no argument it is dispatched to the retrieval of that intent.
C20_RecognizerFailureAbsorbed ==
    \A s \in Sessions :
        req[s].nerRaised
            => /\ pc[s] \notin {"idle", "raised"}
               /\ req[s].entity = Null
               /\ pc[s] # "classify" => req[s].intent # Null
               /\ pc[s] = "done" => req[s].response # MsgInternalError
               /\ (pc[s] \notin {"classify", "route"} /\ req[s].intent \in NoArgIntents)
                    => /\ req[s].cap = IF req[s].intent = "staff_info"
                                       THEN "get_all_staff"
                                       ELSE "get_todays_appointments"
                       /\ pc[s] \in {"retrieve", "generate", "done"}
                       /\ pc[s] # "retrieve" => req[s].attempts >= 1

C20_Witness ==
    \E s \in Sessions :
        /\ req[s].nerRaised
        /\ pc[s] = "done"
        /\ req[s].intent = "staff_info"
        /\ req[s].cap = "get_all_staff"
        /\ req[s].data.kind = "list"
        /\ req[s].response = MsgAnswer

(* ------------------------------ C21 .. C27 ------------------------------ *)

\* C21: one entity at most is kept for an utterance: the text of the first
\* entity, in the order of the recognizer's answer, whose label is one of
\* PERSON, ORG, GPE, DATE, DEPARTMENT, PATIENT_ID, and None when no entity of
\* the answer has such a label (or the recognizer failed).
C21_FirstQualifyingEntity ==
    (probe.fn = "select_entity" /\ probe.returned)
        => LET ents == IF probe.arg.raised THEN <<>> ELSE probe.arg.ents
               Qualifies(i) ==
                   ents[i].label \in {"PERSON", "ORG", "GPE", "DATE", "DEPARTMENT", "PATIENT_ID"}
           IN  IF \E i \in 1..Len(ents) : Qualifies(i)
               THEN \E i \in 1..Len(ents) :
                       /\ Qualifies(i)
                       /\ \A j \in 1..(i - 1) : ~Qualifies(j)
                       /\ probe.out = ents[i].text
               ELSE probe.out = Null

\* two qualifying entities at the end of the answer: the first of them is kept
C21_Witness ==
    /\ probe.fn = "select_entity"
    /\ probe.returned
    /\ Len(probe.arg.ents) = MaxEnts
    /\ probe.arg.ents[MaxEnts - 1].label = "PERSON"
    /\ probe.arg.ents[MaxEnts].label = "DATE"
    /\ probe.out = "Rahul"

\* C22: every invocation of process_query returns in the end, each of the
\* calls it awaits returning or failing: once under way it reaches its end
\* with a message to display, and a retrieval whose store calls fail is
\* never attempted more than StopAfterAttempt (3) times.
C22_EveryInvocationReturns ==
    /\ \A s \in Sessions :
          (pc[s] \in {"classify", "route", "retrieve", "generate"})
              ~> (pc[s] = "done" /\ req[s].response \in DisplayableStrings)
    /\ [](\A s \in Sessions : req[s].attempts <= 3)

\* the store failed every call it got, and the request has returned
C22_Witness ==
    \E s \in Sessions :
        /\ pc[s] = "done"
        /\ req[s].failures = StopAfterAttempt
        /\ req[s].attempts >= 1
        /\ req[s].response \in DisplayableStrings

\* the intents process_query has a retrieval branch for
RoutedIntents ==
    {"appointments_today", "appointments_on_date", "staff_info", "patient_info",
     "get_patient_dob"}

\* the request of session s has ended in fallback, in a validation message
\* or on an intent without a retrieval branch
EndedWithoutRetrieval(s) ==
    /\ pc[s] = "done"
    /\ \/ req[s].intent = "unknown"
       \/ req[s].response \in ValidationMessages
       \/ req[s].intent \in (DOMAIN INTENT_SCHEMA) \ RoutedIntents

\* C23: a request invokes one retrieval capability at most (once chosen it is
\* the one every attempt is made with), calls the generator once at most and
\* only when that retrieval has returned its outcome, and never calls it when
\* it ends in fallback, a validation message or an unsupported intent.
C23_OneRetrievalThenGenerator ==
    /\ [](\A s \in Sessions :
            /\ req[s].genCalls <= 1
            /\ req[s].genCalls = 1
                 => /\ pc[s] = "done"
                    /\ req[s].cap \in Capabilities
                    /\ req[s].attempts >= 1
                    /\ req[s].data # NoPayload
            /\ req[s].attempts >= 1 => req[s].cap \in Capabilities
            /\ EndedWithoutRetrieval(s)
                 => (req[s].genCalls = 0 /\ req[s].cap = Null /\ req[s].attempts = 0))
    /\ [][\A s \in Sessions :
            /\ (req[s].cap # Null /\ pc'[s] # "idle") => req'[s].cap = req[s].cap
            /\ req'[s].genCalls # req[s].genCalls
                 => \/ pc'[s] = "idle"
                    \/ /\ pc[s] = "generate"
                       /\ req[s].data # NoPayload
                       /\ req'[s].data = req[s].data
                       /\ req'[s].genCalls = 1
       ]_vars

C23_Witness ==
    \E s \in Sessions :
        /\ pc[s] = "done"
        /\ req[s].cap = "get_patient_dob"
        /\ req[s].attempts = 1
        /\ req[s].data.kind = "doc"
        /\ req[s].genCalls = 1
        /\ req[s].response = MsgAnswer

\* C24: no retrieval function raises to process_query: a store call that
\* fails, a transient PyMongoError included, makes the function return its
\* error payload (a dict, or a list of one dict), the request is not ended by
\* an exception, and the payload is what the generator is called with.
C24_RetrievalNeverRaises ==
    /\ \A cap \in Capabilities, m \in 0..MaxMatches :
          ~FunctionBody(cap, TRUE, m).raised
    /\ \A s \in Sessions :
          req[s].attempts >= 1
              => /\ pc[s] \in {"retrieve", "generate", "done"}
                 /\ pc[s] = "done" => req[s].response \in {MsgAnswer, MsgGeneratorError}
                 /\ (req[s].failures >= 1 /\ pc[s] # "retrieve")
                      => /\ req[s].data.kind \in {"error", "errorlist"}
                         /\ req[s].data.msg \in
                              {"Error retrieving patient history.",
                               "Could not retrieve date of birth.",
                               "Error fetching today's appointments.",
                               "Error fetching appointments for given date.",
                               "Error retrieving staff list."}
                         /\ req[s].data.kind = "errorlist" <=> req[s].cap \in CollectionLookups
                         /\ pc[s] = "done"
                              => (req[s].genCalls = 1 /\ req[s].context = ContextSerialized)

C24_Witness ==
    \E s \in Sessions :
        /\ pc[s] = "done"
        /\ req[s].cap = "get_todays_appointments"
        /\ req[s].failures = 1
        /\ req[s].data = [kind |-> "errorlist",
                          msg |-> "Error fetching today's appointments.", n |-> 1]
        /\ req[s].genCalls = 1
        /\ req[s].context = ContextSerialized

\* C25: when the classification falls back (the oracle failed or its top
\* score is below 0.10), detect_intent_and_entity returns ("unknown", None)
\* whatever entity was extracted and leaves last_intent and last_entity as
\* they were; otherwise it returns the intent with the extracted entity and
\* overwrites both fields with them, a None entity replacing a remembered one.
C25_FallbackKeepsContextElseOverwrites ==
    [][\A s \in Sessions :
          ClassifyStep(s)
              => /\ req'[s].intent = "unknown"
                      <=> (~req'[s].classified \/ req'[s].score < 10)
                 /\ IF req'[s].intent = "unknown"
                    THEN /\ req'[s].entity = Null
                         /\ DIALOGUE_CONTEXT'.last_intent = DIALOGUE_CONTEXT.last_intent
                         /\ DIALOGUE_CONTEXT'.last_entity = DIALOGUE_CONTEXT.last_entity
                    ELSE /\ req'[s].entity = req[s].entity
                         /\ DIALOGUE_CONTEXT'.last_intent = req'[s].intent
                         /\ DIALOGUE_CONTEXT'.last_entity = req[s].entity
      ]_vars

\* a remembered entity has been replaced by None
C25_Witness ==
    \E s \in Sessions :
        /\ pc[s] = "route"
        /\ req[s].remembered
        /\ req[s].intent = "staff_info"
        /\ req[s].entity = Null
        /\ DIALOGUE_CONTEXT = [last_intent |-> "staff_info", last_entity |-> Null]

\* C26: a request classified with an intent of the schema that process_query
\* has no retrieval branch for ends with a fixed message, the
\* under-development message of the intent when it is in EXTRA_INTENTS and
\* the unrecognized-intent message otherwise, with no store call and no
\* generator call; a retrieval is only ever chosen for appointments_today,
\* appointments_on_date, staff_info, patient_info or get_patient_dob.
C26_UnroutedIntentsFixedMessage ==
    \A s \in Sessions :
        /\ ( /\ pc[s] \notin {"idle", "classify", "route"}
             /\ req[s].intent \in DOMAIN INTENT_SCHEMA
             /\ req[s].intent \notin
                    {"appointments_today", "appointments_on_date", "staff_info",
                     "patient_info", "get_patient_dob"} )
                => /\ pc[s] = "done"
                   /\ req[s].response =
                        IF req[s].intent \in EXTRA_INTENTS
                        THEN "The feature for '" \o req[s].intent
                                 \o "' is under development."
                        ELSE MsgDidntUnderstand
                   /\ req[s].cap = Null
                   /\ req[s].attempts = 0
                   /\ req[s].conn = NoConn
                   /\ req[s].genCalls = 0
        /\ req[s].cap # Null
                => req[s].intent \in
                    {"appointments_today", "appointments_on_date", "staff_info",
                     "patient_info", "get_patient_dob"}

C26_Witness ==
    \E s \in Sessions :
        /\ pc[s] = "done"
        /\ req[s].intent = "referral_status"
        /\ req[s].response = MsgUnderDevelopment("referral_status")
        /\ req[s].cap = Null
        /\ req[s].genCalls = 0

\* C27: get_patient_history first looks the patient up by name; the queries
\* on admissions, prescriptions, diagnoses and labs are issued only when that
\* lookup has returned a patient, in this order, each one after the one
\* before it has answered, and each keyed by the patient_id of that patient;
\* when no patient matches, the lookup by name is the only query.
C27_RelatedQueriesAfterPatient ==
    (probe.fn = "history_queries" /\ probe.returned)
        => LET queries == probe.out
               patient_id == probe.arg.patient_id
               failsAt == probe.arg.failsAt
               order == <<"admissions", "prescriptions", "diagnoses_icd", "labevents">>
           IN  /\ Len(queries) \in 1..5
               /\ queries[1] = [coll |-> "patients", by |-> "name",
                                value |-> probe.arg.name]
               /\ (patient_id = Null \/ failsAt = 1) => Len(queries) = 1
               /\ \A i \in 2..Len(queries) :
                     /\ patient_id # Null
                     /\ failsAt = 0 \/ failsAt >= i
                     /\ queries[i].coll = order[i - 1]
                     /\ queries[i].by = "patient_id"
                     /\ queries[i].value = patient_id
               /\ (patient_id # Null /\ failsAt = 0) => Len(queries) = 5

C27_Witness ==
    /\ probe.fn = "history_queries"
    /\ probe.returned
    /\ probe.arg.patient_id = "p2"
    /\ probe.arg.failsAt = 0
    /\ Len(probe.out) = 5
    /\ probe.out[5] = [coll |-> "labevents", by |-> "patient_id", value |-> "p2"]

====
